---------------------------- MODULE Spec2Model ----------------------------
(***************************************************************************)
(* A model of the Markdown-to-HTML converter (scripts/md_to_html.py) and   *)
(* of the anchor link checker (scripts/check_links.py).                    *)
(*                                                                         *)
(* Python strings are TLA+ strings; TLC evaluates Len, \o and SubSeq on    *)
(* them, so every text transform below works character by character, as    *)
(* the regular expressions of the source do.                               *)
(***************************************************************************)
EXTENDS Integers, Sequences, FiniteSets, TLC

VARIABLES
    pc,            \* position of the running program
    anchor,        \* _normalize_anchor: the argument
    normalized,    \* _normalize_anchor(anchor)
    renormalized,  \* _normalize_anchor(normalized)
    links,         \* the <a> elements the HTML under rewrite is made of
    html,          \* rewrite_md_links / rewrite_cross_page_links: the argument
    rewritten,     \* the rewritten HTML
    page_url_map,  \* html filename -> Confluence URL
    files,         \* SRC_DIR: name of each .md file -> its text
    md_files,      \* main: sorted(SRC_DIR.glob("*.md"))
    scanned,       \* build_page_url_map: the files its loop has read
    idx,           \* main: index in md_files of the file under conversion
    md_text,       \* convert_file: the text read from src
    title,         \* convert_file: extract_title(md_text)
    preprocessed,  \* convert_file: the text with placeholder keys
    placeholders,  \* convert_file: the items of the placeholders dict
    attempts,      \* md_to_html: the calls of markdown.markdown made
    md_body,       \* md_to_html: the body returned
    body_html,     \* convert_file: body_html
    written,       \* DST_DIR: name of each page written -> its text
    maps_seen,     \* the map passed to each call of rewrite_cross_page_links
    page_items,    \* html_dir: name of each page -> what the page is made of
    pages,         \* html_dir: name of each page -> its text
    ids_by_file,   \* check_links: page name -> the ids found in the page
    indexed,       \* check_links: the pages its first loop has read
    html_files,    \* check_links: sorted(html_dir.glob("*.html"))
    src_idx,       \* check_links: index in html_files of src_file
    found,         \* check_links: links, the matches found in src_file
    link_i,        \* check_links: index in found of the link under test
    total,         \* check_links: total
    ok,            \* check_links: ok
    broken,        \* check_links: broken
    printed        \* check_links: the arguments of the calls of print

anchorVars == <<anchor, normalized, renormalized>>
linkVars == <<links, html, rewritten>>
fileVars == <<md_text, title, preprocessed, placeholders, attempts, md_body,
              body_html>>
mainVars == <<files, md_files, scanned, idx, written, maps_seen>>
checkVars == <<page_items, pages, ids_by_file, indexed, html_files, src_idx,
               found, link_i, total, ok, broken, printed>>
vars == <<pc, anchor, normalized, renormalized, links, html, rewritten,
          page_url_map, files, md_files, scanned, idx, md_text, title,
          preprocessed, placeholders, attempts, md_body, body_html, written,
          maps_seen, page_items, pages, ids_by_file, indexed, html_files,
          src_idx, found, link_i, total, ok, broken, printed>>

-----------------------------------------------------------------------------
(* Bounds of the model.                                                    *)

\* longest anchor slug enumerated exhaustively
MaxAnchorLen == 5

\* longest link fragment enumerated exhaustively
MaxFragLen == 3

\* most <a> elements in one HTML text
MaxLinks == 2

\* most files in SRC_DIR
MaxFiles == 2

\* most segments (paragraphs of text, diagram fences) in one document
MaxSegments == 3

-----------------------------------------------------------------------------
(* Characters. A text is a string of the characters of codes 1 .. 255.     *)
(* The lexer of this notation admits no backtick in a string: in every     *)
(* text of this model the character ~ stands for the backtick (U+0060),    *)
(* and the tilde itself (U+007E) is not used.                              *)

\* the characters of codes 1 .. 31, in order
LowTable ==
    "\t\n\f\r"

\* the characters of codes 32 .. 125, in order, ~ at the backtick's place
AsciiTable ==
    " !\"#$%&'()*+,-./0123456789:;<=>?@ABCDEFGHIJKLMNOPQRSTUVWXYZ[\\]^_~abcdefghijklmnopqrstuvwxyz{|}"

\* the characters of codes 127 .. 255, in order
HighTable ==
    " ¡¢£¤¥¦§¨©ª«¬­®¯°±²³´µ¶·¸¹º»¼½¾¿ÀÁÂÃÄÅÆÇÈÉÊËÌÍÎÏÐÑÒÓÔÕÖ×ØÙÚÛÜÝÞßàáâãäåæçèéêëìíîïðñòóôõö÷øùúûüýþÿ"

\* the characters of codes 1 .. 255, in order (code 126 is not used)
CharTable == LowTable \o AsciiTable \o "~" \o HighTable

\* chr(n)
Chr(n) == SubSeq(CharTable, n, n)

-----------------------------------------------------------------------------
(* String helpers (str indexing, slicing, startswith).                     *)

\* s[i:i+1]: the character at index i, the empty string past the end of s
At(s, i) == IF i \in 1..Len(s) THEN SubSeq(s, i, i) ELSE ""

From(s, i) == SubSeq(s, i, Len(s))

StartsWithAt(s, i, p) ==
    /\ i + Len(p) - 1 <= Len(s)
    /\ SubSeq(s, i, i + Len(p) - 1) = p

StartsWith(s, p) == StartsWithAt(s, 1, p)

\* the characters \s matches and str.strip() removes (str.isspace), among
\* those of codes 1 .. 255: \t \n \v \f \r, the separators of codes 28 .. 31,
\* the space, NEL and the no-break space
Whitespace == {Chr(n) : n \in {9, 10, 11, 12, 13, 28, 29, 30, 31, 32, 133, 160}}

\* first index >= i of s that holds no character of set (Len(s) + 1 when
\* every character from i on is one): the end of a greedy run
SkipChars(s, i, set) ==
    CHOOSE k \in i..(Len(s) + 1) :
        /\ k = Len(s) + 1 \/ At(s, k) \notin set
        /\ \A j \in i..(k - 1) : At(s, j) \in set

\* first index >= i of s that holds no whitespace
SkipWhitespace(s, i) == SkipChars(s, i, Whitespace)

\* first index >= i at which p occurs in s (0 when none): str.find
Find(s, p, i) ==
    LET hits == {k \in i..(Len(s) - Len(p) + 1) : StartsWithAt(s, k, p)}
    IN  IF hits = {} THEN 0
        ELSE CHOOSE k \in hits : \A j \in hits : k <= j

\* s split at every occurrence of sep: str.split(sep)
RECURSIVE Split(_, _)
Split(s, sep) ==
    IF Find(s, sep, 1) = 0 THEN <<s>>
    ELSE <<SubSeq(s, 1, Find(s, sep, 1) - 1)>>
             \o Split(From(s, Find(s, sep, 1) + Len(sep)), sep)

\* every string over the characters of alphabet with at most n characters
RECURSIVE Strings(_, _)
Strings(alphabet, n) ==
    IF n = 0 THEN {""}
    ELSE LET shorter == Strings(alphabet, n - 1)
         IN  shorter \cup {s \o c : s \in shorter, c \in alphabet}

-----------------------------------------------------------------------------
(* _normalize_anchor: re.sub(r"-{2,}", "-", anchor).strip("-")             *)

\* first index >= i of s that holds no hyphen (Len(s) + 1 when none)
SkipHyphens(s, i) == SkipChars(s, i, {"-"})

\* re.sub(r"-{2,}", "-", s) from index i on: the text up to the next match
\* is copied, and the match, a greedy run of two or more hyphens, becomes
\* one hyphen
RECURSIVE CollapseFrom(_, _)
CollapseFrom(s, i) ==
    LET m == Find(s, "--", i)
    IN  IF m = 0 THEN From(s, i)
        ELSE SubSeq(s, i, m - 1) \o "-" \o CollapseFrom(s, SkipHyphens(s, m))

\* a plausible slip: str.replace("--", "-"), one left-to-right pass over pairs
RECURSIVE CollapsePairsFrom(_, _)
CollapsePairsFrom(s, i) ==
    LET m == Find(s, "--", i)
    IN  IF m = 0 THEN From(s, i)
        ELSE SubSeq(s, i, m - 1) \o "-" \o CollapsePairsFrom(s, m + 2)

RECURSIVE LStripHyphens(_)
LStripHyphens(s) ==
    IF s # "" /\ At(s, 1) = "-" THEN LStripHyphens(From(s, 2)) ELSE s

RECURSIVE RStripHyphens(_)
RStripHyphens(s) ==
    IF s # "" /\ At(s, Len(s)) = "-"
    THEN RStripHyphens(SubSeq(s, 1, Len(s) - 1))
    ELSE s

\* str.strip("-")
StripHyphens(s) == RStripHyphens(LStripHyphens(s))

NormalizeAnchorPairwise(a) == StripHyphens(CollapsePairsFrom(a, 1))

NormalizeAnchorNoStrip(a) == CollapseFrom(a, 1)

_normalize_anchor(a) == StripHyphens(CollapseFrom(a, 1))

-----------------------------------------------------------------------------
(* SpecAnchor: _normalize_anchor applied once, then to its own result.     *)

AnchorAlphabet == {"-", "a", "b"}

AnchorExamples == {"a----b", "-lead-trail-", "Section--One"}

AnchorInputs == Strings(AnchorAlphabet, MaxAnchorLen) \cup AnchorExamples

AnchorIdle == anchor = "" /\ normalized = "" /\ renormalized = ""

LinkIdle == links = <<>> /\ html = "" /\ rewritten = ""

FileIdle ==
    /\ md_text = ""
    /\ title = ""
    /\ preprocessed = ""
    /\ placeholders = <<>>
    /\ attempts = <<>>
    /\ md_body = ""
    /\ body_html = ""

MainIdle ==
    /\ files = <<>>
    /\ md_files = <<>>
    /\ scanned = {}
    /\ idx = 0
    /\ written = <<>>
    /\ maps_seen = <<>>
    /\ FileIdle

CheckIdle ==
    /\ page_items = <<>>
    /\ pages = <<>>
    /\ ids_by_file = <<>>
    /\ indexed = {}
    /\ html_files = <<>>
    /\ src_idx = 0
    /\ found = <<>>
    /\ link_i = 0
    /\ total = 0
    /\ ok = <<>>
    /\ broken = <<>>
    /\ printed = <<>>

AnchorInit ==
    /\ pc = "anchor"
    /\ anchor \in AnchorInputs
    /\ normalized = ""
    /\ renormalized = ""
    /\ LinkIdle
    /\ page_url_map = <<>>
    /\ MainIdle
    /\ CheckIdle

NormalizeOnce ==
    /\ pc = "anchor"
    /\ normalized' = _normalize_anchor(anchor)
    /\ pc' = "normalized"
    /\ UNCHANGED <<anchor, renormalized, linkVars, page_url_map, fileVars,
                   mainVars>>
    /\ UNCHANGED checkVars

NormalizeTwice ==
    /\ pc = "normalized"
    /\ renormalized' = _normalize_anchor(normalized)
    /\ pc' = "renormalized"
    /\ UNCHANGED <<anchor, normalized, linkVars, page_url_map, fileVars,
                   mainVars>>
    /\ UNCHANGED checkVars

AnchorNext == NormalizeOnce \/ NormalizeTwice

SpecAnchor == AnchorInit /\ [][AnchorNext]_vars

-----------------------------------------------------------------------------
(* Claims on _normalize_anchor.                                            *)

\* the maximal hyphen-free pieces of s, in order, empty pieces dropped
RECURSIVE Words(_, _, _)
Words(s, i, cur) ==
    IF i > Len(s) THEN (IF cur = "" THEN <<>> ELSE <<cur>>)
    ELSE IF At(s, i) = "-"
         THEN (IF cur = "" THEN <<>> ELSE <<cur>>) \o Words(s, i + 1, "")
         ELSE Words(s, i + 1, cur \o At(s, i))

RECURSIVE JoinHyphen(_)
JoinHyphen(ws) ==
    IF ws = <<>> THEN ""
    ELSE IF Len(ws) = 1 THEN ws[1]
    ELSE ws[1] \o "-" \o JoinHyphen(Tail(ws))

RECURSIVE NonHyphens(_)
NonHyphens(s) ==
    IF s = "" THEN ""
    ELSE (IF At(s, 1) = "-" THEN "" ELSE At(s, 1)) \o NonHyphens(From(s, 2))

HasDoubleHyphen(s) == \E i \in 1..Len(s) : StartsWithAt(s, i, "--")

\* C1: normalizing an already normalized anchor changes nothing:
\* _normalize_anchor(_normalize_anchor(s)) = _normalize_anchor(s).
C1_Idempotent ==
    pc = "renormalized" => renormalized = normalized

C1_Witness ==
    /\ pc = "renormalized"
    /\ HasDoubleHyphen(anchor)
    /\ StartsWith(anchor, "-")
    /\ normalized # anchor
    /\ normalized # ""

\* C2: the result is the argument with every maximal run of two or more
\* hyphens replaced by one hyphen and leading and trailing hyphens removed:
\* it is the hyphen-free pieces of the argument joined by single hyphens, it
\* holds no two adjacent hyphens, neither starts nor ends with a hyphen, and
\* keeps the non-hyphen characters in order; "a----b" gives "a-b" and
\* "-lead-trail-" gives "lead-trail".
C2_CollapseAndTrim ==
    pc \in {"normalized", "renormalized"} =>
        /\ normalized = JoinHyphen(Words(anchor, 1, ""))
        /\ ~HasDoubleHyphen(normalized)
        /\ ~StartsWith(normalized, "-")
        /\ normalized # "" => At(normalized, Len(normalized)) # "-"
        /\ NonHyphens(normalized) = NonHyphens(anchor)
        /\ anchor = "a----b" => normalized = "a-b"
        /\ anchor = "-lead-trail-" => normalized = "lead-trail"

C2_Witness ==
    /\ pc = "normalized"
    /\ anchor = "-lead-trail-"
    /\ normalized = "lead-trail"

-----------------------------------------------------------------------------
(* ord, str.encode, str(int), str.strip, str.replace.                      *)

\* ord(c)
Ord(c) == Find(CharTable, c, 1)

\* the bytes of the character of code n in UTF-8
Utf8Char(n) ==
    IF n < 128 THEN <<n>> ELSE <<192 + (n \div 64), 128 + (n % 64)>>

\* the bytes of s[lo .. hi] in UTF-8
RECURSIVE Utf8Range(_, _, _)
Utf8Range(s, lo, hi) ==
    IF lo > hi THEN <<>>
    ELSE IF lo = hi THEN Utf8Char(Ord(At(s, lo)))
    ELSE Utf8Range(s, lo, (lo + hi) \div 2)
             \o Utf8Range(s, ((lo + hi) \div 2) + 1, hi)

\* s.encode("utf-8")
Utf8(s) == Utf8Range(s, 1, Len(s))

Digits == "0123456789"

\* str(n) for n >= 0
RECURSIVE IntToStr(_)
IntToStr(n) ==
    IF n < 10 THEN SubSeq(Digits, n + 1, n + 1)
    ELSE IntToStr(n \div 10) \o SubSeq(Digits, (n % 10) + 1, (n % 10) + 1)

RECURSIVE LStrip(_)
LStrip(s) ==
    IF s # "" /\ At(s, 1) \in Whitespace
    THEN LStrip(From(s, 2))
    ELSE s

RECURSIVE RStrip(_)
RStrip(s) ==
    IF s # "" /\ At(s, Len(s)) \in Whitespace
    THEN RStrip(SubSeq(s, 1, Len(s) - 1))
    ELSE s

\* str.strip()
Strip(s) == RStrip(LStrip(s))

\* str.replace(old, new): every non-overlapping occurrence, left to right
RECURSIVE ReplaceFrom(_, _, _, _)
ReplaceFrom(s, i, old, new) ==
    LET m == Find(s, old, i)
    IN  IF m = 0 THEN From(s, i)
        ELSE SubSeq(s, i, m - 1) \o new
                 \o ReplaceFrom(s, m + Len(old), old, new)

Replace(s, old, new) == ReplaceFrom(s, 1, old, new)

\* Path.read_text(encoding="utf-8") of a file that holds s: the text mode
\* turns every \r\n and every other \r into \n
ReadText(s) == Replace(Replace(s, "\r\n", "\n"), "\r", "\n")

-----------------------------------------------------------------------------
(* confluence_page_url and extract_title.                                  *)

CONFLUENCE_BASE == "https://rezolvetech.atlassian.net"

CONFLUENCE_SPACE == "RAIL"

HexDigits == "0123456789ABCDEF"

\* the characters urllib.parse.quote never encodes (~ among them, which the
\* model does not use), and those of safe="-_. "
QuoteSafe ==
    "ABCDEFGHIJKLMNOPQRSTUVWXYZabcdefghijklmnopqrstuvwxyz0123456789_.-" \o " "

\* %XX for each byte of bs
RECURSIVE PercentBytes(_)
PercentBytes(bs) ==
    IF bs = <<>> THEN ""
    ELSE "%" \o At(HexDigits, (Head(bs) \div 16) + 1)
             \o At(HexDigits, (Head(bs) % 16) + 1)
             \o PercentBytes(Tail(bs))

\* quote of one character: kept when unreserved or in safe, its UTF-8 bytes
\* percent-encoded otherwise
QuoteChar(c) ==
    IF Find(QuoteSafe, c, 1) # 0 THEN c ELSE PercentBytes(Utf8(c))

RECURSIVE QuoteRange(_, _, _)
QuoteRange(t, lo, hi) ==
    IF lo > hi THEN ""
    ELSE IF lo = hi THEN QuoteChar(At(t, lo))
    ELSE QuoteRange(t, lo, (lo + hi) \div 2)
             \o QuoteRange(t, ((lo + hi) \div 2) + 1, hi)

\* quote(title, safe="-_. ")
Quote(t) == QuoteRange(t, 1, Len(t))

confluence_page_url(t) ==
    CONFLUENCE_BASE \o "/wiki/display/" \o CONFLUENCE_SPACE \o "/"
        \o Replace(Quote(t), " ", "+")

\* index of the first newline of s at or after i (Len(s) + 1 when none)
EndOfLine(s, i) == IF Find(s, "\n", i) = 0 THEN Len(s) + 1 ELSE Find(s, "\n", i)

\* \s+(.+)$ after the '#' at index i, the whitespace ending before index p:
\* the greedy \s+ gives characters back until a character other than the
\* newline follows it
RECURSIVE TitleGroupAt(_, _, _)
TitleGroupAt(s, i, p) ==
    IF p <= i + 1 THEN [ok |-> FALSE]
    ELSE IF p <= Len(s) /\ SubSeq(s, p, p) # "\n"
         THEN [ok |-> TRUE, group |-> SubSeq(s, p, EndOfLine(s, p) - 1)]
    ELSE TitleGroupAt(s, i, p - 1)

\* re.search(r"^#\s+(.+)$", md_text, re.MULTILINE) from index i on: the
\* first '#' that starts a line and at which the rest of the pattern matches
RECURSIVE TitleSearch(_, _)
TitleSearch(s, i) ==
    LET h == Find(s, "#", i)
    IN  IF h = 0 THEN [ok |-> FALSE]
        ELSE IF /\ (h = 1 \/ At(s, h - 1) = "\n")
                /\ TitleGroupAt(s, h, SkipWhitespace(s, h + 1)).ok
             THEN TitleGroupAt(s, h, SkipWhitespace(s, h + 1))
        ELSE TitleSearch(s, h + 1)

extract_title(t) ==
    IF TitleSearch(t, 1).ok THEN Strip(TitleSearch(t, 1).group) ELSE "Document"

-----------------------------------------------------------------------------
(* _mermaid_ink_url, preprocess_mermaid and postprocess_placeholders.      *)

Base64UrlAlphabet ==
    "ABCDEFGHIJKLMNOPQRSTUVWXYZabcdefghijklmnopqrstuvwxyz0123456789-_"

B64(n) == SubSeq(Base64UrlAlphabet, n + 1, n + 1)

\* the four characters for the g-th group of three bytes of bs, with '='
\* where the last group is short
B64Group(bs, g) ==
    LET k == 3 * g - 2
        b1 == bs[k]
        b2 == IF k + 1 <= Len(bs) THEN bs[k + 1] ELSE 0
        b3 == IF k + 2 <= Len(bs) THEN bs[k + 2] ELSE 0
        n == b1 * 65536 + b2 * 256 + b3
    IN  B64(n \div 262144) \o B64((n \div 4096) % 64)
            \o (IF k + 1 <= Len(bs) THEN B64((n \div 64) % 64) ELSE "=")
            \o (IF k + 2 <= Len(bs) THEN B64(n % 64) ELSE "=")

RECURSIVE B64Groups(_, _, _)
B64Groups(bs, lo, hi) ==
    IF lo > hi THEN ""
    ELSE IF lo = hi THEN B64Group(bs, lo)
    ELSE B64Groups(bs, lo, (lo + hi) \div 2)
             \o B64Groups(bs, ((lo + hi) \div 2) + 1, hi)

\* base64.urlsafe_b64encode(s.encode("utf-8")).decode("ascii")
Base64Url(s) == B64Groups(Utf8(s), 1, (Len(Utf8(s)) + 2) \div 3)

_mermaid_ink_url(diagram_code) ==
    "https://mermaid.ink/img/" \o Base64Url(diagram_code) \o "?theme=neutral"

\* the opening of a mermaid fence: three backticks, "mermaid", a newline
FenceOpen == "~~~mermaid\n"

FenceClose == "~~~"

PlaceholderKey(n) == "MERMAID_PLACEHOLDER_" \o IntToStr(n) \o "_END"

ImgOpen == "<img class=\"mermaid-img\" src=\""

\* the block replacer stores for the diagram whose fence holds inner
ImgBlock(inner) ==
    ImgOpen \o _mermaid_ink_url(Strip(inner)) \o "\" alt=\"Mermaid diagram\" />"

\* the match of the fence pattern (lazy body, re.DOTALL) that starts at i
FenceMatchAt(s, i) ==
    IF StartsWithAt(s, i, FenceOpen)
       /\ Find(s, FenceClose, i + Len(FenceOpen)) # 0
    THEN [ok |-> TRUE,
          inner |-> SubSeq(s, i + Len(FenceOpen),
                           Find(s, FenceClose, i + Len(FenceOpen)) - 1),
          last |-> Find(s, FenceClose, i + Len(FenceOpen)) + 2]
    ELSE [ok |-> FALSE]

\* pattern.sub(replacer, md_text) from index i on, n diagrams replaced so
\* far: the text up to the next match is copied (an opening with no closing
\* after it is no match, and then none follows either)
RECURSIVE FenceSubFrom(_, _, _)
FenceSubFrom(s, i, n) ==
    LET o == Find(s, FenceOpen, i)
    IN  IF o = 0 \/ ~FenceMatchAt(s, o).ok THEN From(s, i)
        ELSE SubSeq(s, i, o - 1) \o PlaceholderKey(n)
                 \o FenceSubFrom(s, FenceMatchAt(s, o).last + 1, n + 1)

\* the placeholders dict replacer fills, as its items in insertion order
RECURSIVE FencePlaceholdersFrom(_, _, _)
FencePlaceholdersFrom(s, i, n) ==
    LET o == Find(s, FenceOpen, i)
    IN  IF o = 0 \/ ~FenceMatchAt(s, o).ok THEN <<>>
        ELSE <<[key |-> PlaceholderKey(n),
                block |-> ImgBlock(FenceMatchAt(s, o).inner)]>>
                 \o FencePlaceholdersFrom(s, FenceMatchAt(s, o).last + 1, n + 1)

\* a dict keeps one item per key, at the place of its first insertion and
\* with the value of its last
RECURSIVE DictItems(_)
DictItems(items) ==
    IF items = <<>> THEN <<>>
    ELSE LET rest == SelectSeq(Tail(items), LAMBDA x : x.key # items[1].key)
             same == SelectSeq(items, LAMBDA x : x.key = items[1].key)
         IN  <<same[Len(same)]>> \o DictItems(rest)

preprocess_mermaid(t) ==
    [processed |-> FenceSubFrom(t, 1, 0),
     placeholders |-> DictItems(FencePlaceholdersFrom(t, 1, 0))]

\* a plausible slip: only the paragraph-wrapped form of a key is replaced
RECURSIVE PostprocessWrappedOnly(_, _)
PostprocessWrappedOnly(h, items) ==
    IF items = <<>> THEN h
    ELSE PostprocessWrappedOnly(
             Replace(h, "<p>" \o items[1].key \o "</p>", items[1].block),
             Tail(items))

\* postprocess_placeholders: for each item in turn, the wrapped key and then
\* the bare key are replaced by the block (an empty text holds neither)
RECURSIVE postprocess_placeholders(_, _)
postprocess_placeholders(h, items) ==
    IF items = <<>> \/ h = "" THEN h
    ELSE postprocess_placeholders(
             Replace(Replace(h, "<p>" \o items[1].key \o "</p>",
                             items[1].block),
                     items[1].key, items[1].block),
             Tail(items))

-----------------------------------------------------------------------------
(* rewrite_md_links: re.sub, by _fix, of the pattern                       *)
(*     href=Q  ([^Q]+?)  \.md  (#[^Q]* )??  Q                              *)
(* where Q stands for the double quote character.                          *)

QUOTE == "\""

NoMatch == [ok |-> FALSE]

\* first index >= i of s that holds a double quote (0 when none)
FindQuote(s, i) == Find(s, QUOTE, i)

\* the optional lazy group and the closing quote at index t, after ".md":
\* the group is first
\* skipped (a quote at t), then taken (a '#', then everything up to a quote)
MdTailAt(s, t) ==
    IF At(s, t) = QUOTE THEN [ok |-> TRUE, anchor |-> "", last |-> t]
    ELSE IF At(s, t) = "#" /\ FindQuote(s, t + 1) # 0
         THEN [ok |-> TRUE,
               anchor |-> SubSeq(s, t, FindQuote(s, t + 1) - 1),
               last |-> FindQuote(s, t + 1)]
    ELSE NoMatch

\* ([^Q]+?)\.md with the group starting at j: the lazy group is tried with
\* k = 1, 2, ... characters, none of them a quote
RECURSIVE MdPathAt(_, _, _)
MdPathAt(s, j, k) ==
    IF j + k - 1 > Len(s) \/ At(s, j + k - 1) = QUOTE THEN NoMatch
    ELSE IF StartsWithAt(s, j + k, ".md") /\ MdTailAt(s, j + k + 3).ok
         THEN [ok |-> TRUE,
               path |-> SubSeq(s, j, j + k - 1),
               anchor |-> MdTailAt(s, j + k + 3).anchor,
               last |-> MdTailAt(s, j + k + 3).last]
    ELSE MdPathAt(s, j, k + 1)

\* the match of the whole pattern that starts at index i, if any
MdMatchAt(s, i) ==
    IF StartsWithAt(s, i, "href=" \o QUOTE)
    THEN MdPathAt(s, i + 6, 1)
    ELSE NoMatch

\* a plausible slip: the fragment re-attached as written, not normalized
FixKeepAnchor(path, a) ==
    "href=" \o QUOTE \o path \o ".html" \o a \o QUOTE

\* _fix: a holds the leading '#' when a fragment is present
_fix(path, a) ==
    "href=" \o QUOTE \o path \o ".html"
        \o (IF a # "" THEN "#" \o _normalize_anchor(From(a, 2)) ELSE "")
        \o QUOTE

\* re.sub from index i on: the text up to the next match is copied; a
\* match can only start where the pattern's literal opening stands
RECURSIVE MdSubFrom(_, _)
MdSubFrom(s, i) ==
    LET o == Find(s, "href=" \o QUOTE, i)
    IN  IF o = 0 THEN From(s, i)
        ELSE LET m == MdMatchAt(s, o)
             IN  IF m.ok
                 THEN SubSeq(s, i, o - 1) \o _fix(m.path, m.anchor)
                          \o MdSubFrom(s, m.last + 1)
                 ELSE SubSeq(s, i, o) \o MdSubFrom(s, o + 1)

rewrite_md_links(h) == MdSubFrom(h, 1)

-----------------------------------------------------------------------------
(* The HTML texts the link rewrites are applied to: <a> elements, each     *)
(* with its href first, separated by plain text.                           *)

RenderLink(l) ==
    "<a" \o l.ws \o "href=" \o QUOTE \o l.href \o QUOTE \o l.attrs \o ">"
         \o l.inner \o "</a>"

RECURSIVE RenderLinks(_)
RenderLinks(ls) ==
    IF ls = <<>> THEN ""
    ELSE IF Len(ls) = 1 THEN RenderLink(ls[1])
    ELSE RenderLink(ls[1]) \o ", " \o RenderLinks(Tail(ls))

RenderHtml(ls) == "<p>see " \o RenderLinks(ls) \o "</p>"

\* every sequence of 1..n elements: the first from firsts, the others from rest
RECURSIVE SeqsUpTo(_, _, _)
SeqsUpTo(firsts, rest, n) ==
    IF n = 1 THEN {<<f>> : f \in firsts}
    ELSE LET shorter == SeqsUpTo(firsts, rest, n - 1)
         IN  shorter \cup {Append(q, r) : q \in shorter, r \in rest}

-----------------------------------------------------------------------------
(* SpecMdLinks: rewrite_md_links applied to one HTML text.                 *)

MdPaths == {"", "x", "x.md", "docs/x"}

MdExts == {".md", ".html", ".md.bak"}

MdFrags ==
    {""} \cup {"#" \o f :
                  f \in Strings({"-", "s"}, MaxFragLen)
                        \cup {"Section--One", "a.md"}}

MdHrefs == {p \o e \o f : p \in MdPaths, e \in MdExts, f \in MdFrags}

MdLink(h) == [ws |-> " ", href |-> h, attrs |-> "", inner |-> "text"]

MdLinksInit ==
    /\ pc = "md_links"
    /\ links \in SeqsUpTo({MdLink(h) : h \in MdHrefs},
                          {MdLink(h) : h \in {"y.md#a--b", "#top", ".md"}},
                          MaxLinks)
    /\ html = RenderHtml(links)
    /\ rewritten = ""
    /\ AnchorIdle
    /\ page_url_map = <<>>
    /\ MainIdle
    /\ CheckIdle

RewriteMdLinks ==
    /\ pc = "md_links"
    /\ rewritten' = rewrite_md_links(html)
    /\ pc' = "md_rewritten"
    /\ UNCHANGED <<anchorVars, links, html, page_url_map, fileVars, mainVars>>
    /\ UNCHANGED checkVars

MdLinksNext == RewriteMdLinks

SpecMdLinks == MdLinksInit /\ [][MdLinksNext]_vars

-----------------------------------------------------------------------------
(* Claims on rewrite_md_links.                                             *)

\* index of the first '#' of h at or after i (0 when none)
FindHash(h, i) == Find(h, "#", i)

HrefPath(h) ==
    IF FindHash(h, 1) = 0 THEN h ELSE SubSeq(h, 1, FindHash(h, 1) - 1)

HasFragment(h) == FindHash(h, 1) # 0

HrefFragment(h) == From(h, FindHash(h, 1) + 1)

EndsWith(s, suffix) ==
    /\ Len(s) >= Len(suffix)
    /\ From(s, Len(s) - Len(suffix) + 1) = suffix

\* the target of h (h without its '#fragment') ends in ".md"
EndsInMd(h) == EndsWith(HrefPath(h), ".md")

\* ... and holds at least one character before the ".md"
NamedMd(h) == EndsInMd(h) /\ Len(HrefPath(h)) > 3

\* the same path with ".html", the fragment normalized
MdExpected(h) ==
    SubSeq(HrefPath(h), 1, Len(HrefPath(h)) - 3) \o ".html"
        \o (IF HasFragment(h)
            THEN "#" \o _normalize_anchor(HrefFragment(h))
            ELSE "")

\* the values of the href attributes of h, in order
RECURSIVE HrefsOf(_, _)
HrefsOf(h, i) ==
    LET o == Find(h, "href=" \o QUOTE, i)
    IN  IF o = 0 \/ FindQuote(h, o + 6) = 0 THEN <<>>
        ELSE <<SubSeq(h, o + 6, FindQuote(h, o + 6) - 1)>>
                 \o HrefsOf(h, FindQuote(h, o + 6) + 1)

\* C6 as stated: every href whose target ends in ".md", optionally followed
\* by a '#fragment', comes out as the same path with ".html", followed by
\* '#' and the normalized fragment when a fragment is present.
C6_Original ==
    pc = "md_rewritten" =>
        /\ Len(HrefsOf(rewritten, 1)) = Len(links)
        /\ \A i \in 1..Len(links) :
               EndsInMd(links[i].href) =>
                   HrefsOf(rewritten, 1)[i] = MdExpected(links[i].href)

\* C6, amended: every href whose target is at least one character followed
\* by ".md", optionally followed by a '#fragment', comes out as the same
\* path with ".html", followed by '#' and the normalized fragment when a
\* fragment is present and by nothing otherwise; href="x.md#Section--One"
\* becomes href="x.html#Section-One" and href="x.md" becomes href="x.html".
C6_MdToHtml ==
    pc = "md_rewritten" =>
        /\ Len(HrefsOf(rewritten, 1)) = Len(links)
        /\ \A i \in 1..Len(links) :
               /\ NamedMd(links[i].href) =>
                      HrefsOf(rewritten, 1)[i] = MdExpected(links[i].href)
               /\ links[i].href = "x.md#Section--One" =>
                      HrefsOf(rewritten, 1)[i] = "x.html#Section-One"
               /\ links[i].href = "x.md" =>
                      HrefsOf(rewritten, 1)[i] = "x.html"

C6_Witness ==
    /\ pc = "md_rewritten"
    /\ Len(links) = 2
    /\ links[1].href = "x.md#Section--One"
    /\ links[2].href = "y.md#a--b"
    /\ HrefsOf(rewritten, 1) = <<"x.html#Section-One", "y.html#a-b">>

-----------------------------------------------------------------------------
(* rewrite_cross_page_links: re.sub, by _replace with re.DOTALL, of        *)
(*     <a  \s+  href=Q ([^Q]* ) Q  [^>]*  >  (.*?)  </a>                    *)
(* where Q stands for the double quote character.                          *)

\* the match of the whole pattern that starts at index i, if any
LinkMatchAt(s, i) ==
    IF ~StartsWithAt(s, i, "<a") THEN NoMatch
    ELSE LET h == SkipWhitespace(s, i + 2)
         IN
         IF h = i + 2 \/ ~StartsWithAt(s, h, "href=" \o QUOTE) THEN NoMatch
         ELSE LET q == FindQuote(s, h + 6)
                  g == IF q = 0 THEN 0 ELSE Find(s, ">", q + 1)
                  e == IF g = 0 THEN 0 ELSE Find(s, "</a>", g + 1)
              IN  IF e = 0 THEN NoMatch
                  ELSE [ok |-> TRUE,
                        whole |-> SubSeq(s, i, e + 3),
                        href |-> SubSeq(s, h + 6, q - 1),
                        inner |-> SubSeq(s, g + 1, e - 1),
                        last |-> e + 3]

\* href.split("#")[0]
BeforeHash(href) ==
    IF Find(href, "#", 1) = 0 THEN href
    ELSE SubSeq(href, 1, Find(href, "#", 1) - 1)

\* a plausible slip: only same-page anchors are kept, external links are
\* looked up like page links
ReplaceNoExternal(whole, href, inner, map) ==
    IF StartsWith(href, "#") THEN whole
    ELSE IF BeforeHash(href) \in DOMAIN map
         THEN "<a href=" \o QUOTE \o map[BeforeHash(href)] \o QUOTE \o ">"
                  \o inner \o "</a>"
    ELSE "<strong>" \o inner \o "</strong>"

\* _replace: whole is m.group(0), href m.group(1), inner m.group(2)
_replace(whole, href, inner, map) ==
    IF StartsWith(href, "#") \/ StartsWith(href, "http") THEN whole
    ELSE IF BeforeHash(href) \in DOMAIN map
         THEN "<a href=" \o QUOTE \o map[BeforeHash(href)] \o QUOTE \o ">"
                  \o inner \o "</a>"
    ELSE "<strong>" \o inner \o "</strong>"

\* re.sub from index i on: the text up to the next match is copied; a
\* match can only start where the pattern's literal opening stands
RECURSIVE LinkSubFrom(_, _, _)
LinkSubFrom(s, i, map) ==
    LET o == Find(s, "<a", i)
    IN  IF o = 0 THEN From(s, i)
        ELSE LET m == LinkMatchAt(s, o)
             IN  IF m.ok
                 THEN SubSeq(s, i, o - 1)
                          \o _replace(m.whole, m.href, m.inner, map)
                          \o LinkSubFrom(s, m.last + 1, map)
                 ELSE SubSeq(s, i, o) \o LinkSubFrom(s, o + 1, map)

rewrite_cross_page_links(h, map) == LinkSubFrom(h, 1, map)

-----------------------------------------------------------------------------
(* SpecCrossLinks: rewrite_cross_page_links applied to one HTML text.      *)

CrossHrefs ==
    {"#sec", "https://x", "http://x/p.html#s", "b.html", "b.html#sec",
     "z.html", "z.html#sec", "http-api.html", "http-api.html#sec", "",
     "mailto:a"}

CrossLinks ==
    {[ws |-> w, href |-> h, attrs |-> a, inner |-> t] :
        w \in {" ", "\n  ", "\r\n"},
        h \in CrossHrefs,
        a \in {"", " title=" \o QUOTE \o "t" \o QUOTE},
        t \in {"text", "<em>t</em>"}}

MoreCrossLinks ==
    {[ws |-> " ", href |-> h, attrs |-> "", inner |-> "more"] :
        h \in {"b.html#sec", "z.html", "#sec"}}

PageUrlMaps ==
    {<<>>,
     [k \in {"b.html"} |-> "https://wiki/b"],
     [k \in {"b.html", "http-api.html"} |->
         IF k = "b.html" THEN "https://wiki/b" ELSE "https://wiki/HTTP+API"]}

CrossLinksInit ==
    /\ pc = "cross_links"
    /\ links \in SeqsUpTo(CrossLinks, MoreCrossLinks, MaxLinks)
    /\ html = RenderHtml(links)
    /\ rewritten = ""
    /\ page_url_map \in PageUrlMaps
    /\ AnchorIdle
    /\ MainIdle
    /\ CheckIdle

RewriteCrossPageLinks ==
    /\ pc = "cross_links"
    /\ rewritten' = rewrite_cross_page_links(html, page_url_map)
    /\ pc' = "cross_rewritten"
    /\ UNCHANGED <<anchorVars, links, html, page_url_map, fileVars, mainVars>>
    /\ UNCHANGED checkVars

CrossLinksNext == RewriteCrossPageLinks

SpecCrossLinks == CrossLinksInit /\ [][CrossLinksNext]_vars

-----------------------------------------------------------------------------
(* Claims on rewrite_cross_page_links.                                     *)

\* what stands in the output at the place of each element of the input
Pieces(out) ==
    Split(SubSeq(out, Len("<p>see ") + 1, Len(out) - Len("</p>")), ", ")

SamePageLink(l) == StartsWith(l.href, "#")

ExternalLink(l) ==
    StartsWith(l.href, "http://") \/ StartsWith(l.href, "https://")

PageLink(l) == ~SamePageLink(l) /\ ~ExternalLink(l)

Hit(l) == PageLink(l) /\ HrefPath(l.href) \in DOMAIN page_url_map

Miss(l) == PageLink(l) /\ HrefPath(l.href) \notin DOMAIN page_url_map

\* C3: every link that is neither a same-page anchor link nor an external
\* link and whose href, fragment stripped, is a key of the Page URL Map
\* comes out as an <a> element whose href is the mapped URL, with no
\* fragment, around the original visible text.
C3_HitRewritten ==
    pc = "cross_rewritten" =>
        /\ Len(Pieces(rewritten)) = Len(links)
        /\ \A i \in 1..Len(links) :
               Hit(links[i]) =>
                   Pieces(rewritten)[i] =
                       "<a href=" \o QUOTE
                           \o page_url_map[HrefPath(links[i].href)]
                           \o QUOTE \o ">" \o links[i].inner \o "</a>"

\* C4: every link that is neither a same-page anchor link nor an external
\* link and whose href, fragment stripped, is no key of the Page URL Map
\* comes out as <strong>text</strong> around its visible text, never as an
\* <a> element and never without its text.
C4_MissDegrades ==
    pc = "cross_rewritten" =>
        /\ Len(Pieces(rewritten)) = Len(links)
        /\ \A i \in 1..Len(links) :
               Miss(links[i]) =>
                   /\ Pieces(rewritten)[i] =
                          "<strong>" \o links[i].inner \o "</strong>"
                   /\ Find(Pieces(rewritten)[i], "<a", 1) = 0

\* C5: every same-page anchor link (href starting with '#') and every
\* external link (href starting with http:// or https://) comes out as it
\* went in, attributes and text included, whatever the Page URL Map holds.
C5_PassThrough ==
    pc = "cross_rewritten" =>
        /\ Len(Pieces(rewritten)) = Len(links)
        /\ \A i \in 1..Len(links) :
               (SamePageLink(links[i]) \/ ExternalLink(links[i])) =>
                   Pieces(rewritten)[i] = RenderLink(links[i])

C5_Witness ==
    /\ pc = "cross_rewritten"
    /\ Len(links) = 2
    /\ links[1].href = "http://x/p.html#s"
    /\ links[1].attrs # ""
    /\ links[2].href = "#sec"
    /\ "b.html" \in DOMAIN page_url_map
    /\ rewritten = html

-----------------------------------------------------------------------------
(* markdown.markdown, the external library md_to_html calls. What is       *)
(* modelled is its rendering of the documents used here: blocks separated  *)
(* by blank lines, each a heading line ('#'s, a space, the text) or a      *)
(* paragraph of plain text, inline HTML and placeholder keys. A call may   *)
(* also raise; whether it does is not decided by this model.               *)

\* md_to_html: extensions and safe_extensions
Extensions ==
    <<"tables", "fenced_code", "toc", "nl2br", "pymdownx.superfences">>

SafeExtensions == <<"tables", "fenced_code", "toc", "sane_lists">>

Has(extensions, name) == \E i \in 1..Len(extensions) : extensions[i] = name

UpperCase == "ABCDEFGHIJKLMNOPQRSTUVWXYZ"

LowerCase == "abcdefghijklmnopqrstuvwxyz"

Lower(c) ==
    IF Find(UpperCase, c, 1) = 0 THEN c
    ELSE At(LowerCase, Find(UpperCase, c, 1))

WordChars == UpperCase \o LowerCase \o Digits \o "_"

\* the characters the toc extension's slugify keeps, lowered
RECURSIVE SlugKeep(_)
SlugKeep(t) ==
    IF t = "" THEN ""
    ELSE (IF \/ Find(WordChars, At(t, 1), 1) # 0
             \/ At(t, 1) \in Whitespace
             \/ At(t, 1) = "-"
          THEN Lower(At(t, 1))
          ELSE "")
         \o SlugKeep(From(t, 2))

\* every run of hyphens and whitespace replaced by one hyphen
RECURSIVE SlugJoin(_, _)
SlugJoin(t, i) ==
    IF i > Len(t) THEN ""
    ELSE IF At(t, i) \in Whitespace \cup {"-"}
         THEN "-" \o SlugJoin(t, SkipChars(t, i, Whitespace \cup {"-"}))
    ELSE At(t, i) \o SlugJoin(t, i + 1)

Slugify(t) == SlugJoin(Strip(SlugKeep(t)), 1)

\* one block: a heading (toc gives it an id) or a paragraph (nl2br turns its
\* line ends into <br />)
RenderBlock(block, extensions) ==
    LET level == SkipChars(block, 1, {"#"}) - 1
    IN  IF level \in 1..6 /\ StartsWithAt(block, level + 1, " ")
        THEN LET text == Strip(From(block, level + 1))
             IN  "<h" \o IntToStr(level) \o " id=\"" \o Slugify(text) \o "\">"
                     \o text \o "</h" \o IntToStr(level) \o ">"
        ELSE "<p>"
                 \o (IF Has(extensions, "nl2br")
                     THEN Replace(block, "\n", "<br />\n")
                     ELSE block)
                 \o "</p>"

RECURSIVE RenderBlocks(_, _)
RenderBlocks(blocks, extensions) ==
    IF blocks = <<>> THEN ""
    ELSE IF Len(blocks) = 1 THEN RenderBlock(blocks[1], extensions)
    ELSE RenderBlock(blocks[1], extensions) \o "\n"
             \o RenderBlocks(Tail(blocks), extensions)

RECURSIVE StripAll(_)
StripAll(blocks) ==
    IF blocks = <<>> THEN <<>>
    ELSE <<Strip(blocks[1])>> \o StripAll(Tail(blocks))

\* the body markdown.markdown returns for text when it returns
Markdown(text, extensions) ==
    RenderBlocks(SelectSeq(StripAll(Split(text, "\n\n")), LAMBDA b : b # ""),
                 extensions)

-----------------------------------------------------------------------------
(* md_to_html, convert_file and main.                                      *)

\* the extension set of the k-th call of markdown.markdown in md_to_html
ExtensionsOfAttempt(k) == IF k = 1 THEN Extensions ELSE SafeExtensions

\* a plausible slip: no except clause, the first exception propagates
AfterAttemptNoRetry(k, outcome) ==
    IF outcome = "returns" THEN "postprocess" ELSE "aborted"

\* what a call of markdown.markdown can do: return a body, raise an
\* exception of class Exception, or raise one outside it (KeyboardInterrupt,
\* SystemExit), which "except Exception" does not catch
Outcomes == {"returns", "raises Exception", "raises BaseException"}

\* md_to_html after its k-th call of markdown.markdown: a body is returned to
\* convert_file, the except clause catches the Exception of the first call
\* and makes the second call, or the exception (one the clause does not
\* catch, or any of the second call) leaves md_to_html, convert_file and main
AfterAttempt(k, outcome) ==
    IF outcome = "returns" THEN "postprocess"
    ELSE IF k = 1 /\ outcome = "raises Exception" THEN "md_to_html"
    ELSE "aborted"

\* HTML_TEMPLATE up to its title slot, with the doubled braces of the format
\* string single
TemplateHead ==
    "<!DOCTYPE html>\n"
        \o "<html lang=\"en\">\n"
        \o "<head>\n"
        \o "  <meta charset=\"UTF-8\">\n"
        \o "  <meta name=\"viewport\" content=\"width=device-width, initial-scale=1.0\">\n"
        \o "  <title>"

\* HTML_TEMPLATE between its title slot and its body slot
TemplateStyle ==
    "</title>\n"
        \o "  <style>\n"
        \o "    /* === base === */\n"
        \o "    body {\n"
        \o "      font-family: -apple-system, BlinkMacSystemFont, \"Segoe UI\", Roboto,\n"
        \o "                   \"Helvetica Neue\", Arial, sans-serif;\n"
        \o "      font-size: 14px;\n"
        \o "      line-height: 1.6;\n"
        \o "      color: #172b4d;\n"
        \o "      max-width: 960px;\n"
        \o "      margin: 32px auto;\n"
        \o "      padding: 0 24px;\n"
        \o "    }\n"
        \o "    /* === headings === */\n"
        \o "    h1 { font-size: 2em;   border-bottom: 2px solid #dfe1e6; padding-bottom: 8px;  margin-top: 32px; }\n"
        \o "    h2 { font-size: 1.5em; border-bottom: 1px solid #dfe1e6; padding-bottom: 4px;  margin-top: 28px; }\n"
        \o "    h3 { font-size: 1.17em; margin-top: 24px; }\n"
        \o "    h4 { font-size: 1em;   margin-top: 16px; }\n"
        \o "    /* === tables === */\n"
        \o "    table {\n"
        \o "      border-collapse: collapse;\n"
        \o "      width: 100%;\n"
        \o "      margin: 16px 0;\n"
        \o "      font-size: 13px;\n"
        \o "    }\n"
        \o "    th, td {\n"
        \o "      border: 1px solid #dfe1e6;\n"
        \o "      padding: 8px 12px;\n"
        \o "      text-align: left;\n"
        \o "      vertical-align: top;\n"
        \o "    }\n"
        \o "    th {\n"
        \o "      background-color: #f4f5f7;\n"
        \o "      font-weight: 600;\n"
        \o "    }\n"
        \o "    tr:nth-child(even) td {\n"
        \o "      background-color: #fafbfc;\n"
        \o "    }\n"
        \o "    /* === code === */\n"
        \o "    code {\n"
        \o "      font-family: \"SFMono-Regular\", Consolas, \"Liberation Mono\", Menlo, monospace;\n"
        \o "      font-size: 12px;\n"
        \o "      background: #f4f5f7;\n"
        \o "      padding: 2px 5px;\n"
        \o "      border-radius: 3px;\n"
        \o "    }\n"
        \o "    pre {\n"
        \o "      background: #f4f5f7;\n"
        \o "      border: 1px solid #dfe1e6;\n"
        \o "      border-radius: 4px;\n"
        \o "      padding: 16px;\n"
        \o "      overflow-x: auto;\n"
        \o "      margin: 16px 0;\n"
        \o "    }\n"
        \o "    pre code {\n"
        \o "      background: none;\n"
        \o "      padding: 0;\n"
        \o "      font-size: 12px;\n"
        \o "    }\n"
        \o "    /* === mermaid diagram image === */\n"
        \o "    .mermaid-img {\n"
        \o "      display: block;\n"
        \o "      max-width: 100%;\n"
        \o "      border: 1px solid #dfe1e6;\n"
        \o "      border-radius: 4px;\n"
        \o "      margin: 16px 0;\n"
        \o "      background: #f9f9fb;\n"
        \o "      padding: 8px;\n"
        \o "    }\n"
        \o "    /* === blockquotes / notes === */\n"
        \o "    blockquote {\n"
        \o "      border-left: 4px solid #0052cc;\n"
        \o "      margin: 16px 0;\n"
        \o "      padding: 8px 16px;\n"
        \o "      background: #e9f2ff;\n"
        \o "      border-radius: 0 4px 4px 0;\n"
        \o "    }\n"
        \o "    /* === lists === */\n"
        \o "    ul, ol { margin: 8px 0 8px 24px; }\n"
        \o "    li { margin: 4px 0; }\n"
        \o "    /* === horizontal rule === */\n"
        \o "    hr { border: none; border-top: 1px solid #dfe1e6; margin: 24px 0; }\n"
        \o "    /* === strong / bold === */\n"
        \o "    strong { font-weight: 600; color: #172b4d; }\n"
        \o "    /* === links === */\n"
        \o "    a { color: #0052cc; text-decoration: none; }\n"
        \o "    a:hover { text-decoration: underline; }\n"
        \o "  </style>\n"
        \o "  <!-- No Mermaid JS needed: diagrams are pre-rendered as static images via mermaid.ink -->\n"
        \o "</head>\n"
        \o "<body>\n"

\* HTML_TEMPLATE after its body slot
TemplateTail ==
    "\n"
        \o "</body>\n"
        \o "</html>\n"

\* HTML_TEMPLATE.format(title=title, body=body)
HtmlTemplate(t, body) ==
    TemplateHead \o t \o TemplateStyle \o body \o TemplateTail

\* name.rfind("."), counted from 1; 0 when name holds no dot
LastDot(name) ==
    LET dots == {i \in 1..Len(name) : At(name, i) = "."}
    IN  IF dots = {} THEN 0 ELSE CHOOSE i \in dots : \A j \in dots : j <= i

\* Path.stem: the name up to its last dot, or the whole name when that dot
\* is its first or its last character (".md" is the stem of ".md" and of
\* ".md.md")
Stem(name) ==
    LET i == LastDot(name)
    IN  IF 1 < i /\ i < Len(name) THEN SubSeq(name, 1, i - 1) ELSE name

\* a < b for str
RECURSIVE StrLess(_, _)
StrLess(a, b) ==
    IF b = "" THEN FALSE
    ELSE IF a = "" THEN TRUE
    ELSE IF At(a, 1) = At(b, 1) THEN StrLess(From(a, 2), From(b, 2))
    ELSE Ord(At(a, 1)) < Ord(At(b, 1))

\* sorted(names)
RECURSIVE Sorted(_)
Sorted(names) ==
    IF names = {} THEN <<>>
    ELSE LET least == CHOOSE n \in names :
                          \A o \in names \ {n} : StrLess(n, o)
         IN  <<least>> \o Sorted(names \ {least})

\* m with m[key] = value: dict item assignment
Put(m, key, value) ==
    [k \in DOMAIN m \cup {key} |-> IF k = key THEN value ELSE m[k]]

\* build_page_url_map: its loop over src_dir.glob("*.md") has ended
MapBuilt == scanned = DOMAIN files

\* main: the glob, and the early return when no file is found
Glob ==
    /\ pc = "main"
    /\ md_files' = Sorted(DOMAIN files)
    /\ pc' = IF DOMAIN files = {} THEN "done" ELSE "build_map"
    /\ UNCHANGED <<anchorVars, linkVars, page_url_map, files, scanned, idx,
                   written, maps_seen, fileVars>>
    /\ UNCHANGED checkVars

\* build_page_url_map: one turn of its loop, the glob yielding f
BuildMapEntry(f) ==
    /\ pc = "build_map"
    /\ f \in DOMAIN files \ scanned
    /\ page_url_map' = Put(page_url_map, Stem(f) \o ".html",
                           confluence_page_url(extract_title(ReadText(files[f]))))
    /\ scanned' = scanned \cup {f}
    /\ UNCHANGED <<pc, anchorVars, linkVars, files, md_files, idx, written,
                   maps_seen, fileVars>>
    /\ UNCHANGED checkVars

\* main: build_page_url_map has returned, the conversion loop starts
StartConversions ==
    /\ pc = "build_map"
    /\ MapBuilt
    /\ idx' = 1
    /\ pc' = "convert"
    /\ UNCHANGED <<anchorVars, linkVars, page_url_map, files, md_files,
                   scanned, written, maps_seen, fileVars>>
    /\ UNCHANGED checkVars

\* convert_file: read src, extract_title, preprocess_mermaid
ReadAndPreprocess ==
    /\ pc = "convert"
    /\ LET text == ReadText(files[md_files[idx]])
       IN  /\ md_text' = text
           /\ title' = extract_title(text)
           /\ preprocessed' = preprocess_mermaid(text).processed
           /\ placeholders' = preprocess_mermaid(text).placeholders
    /\ attempts' = <<>>
    /\ md_body' = ""
    /\ body_html' = ""
    /\ pc' = "md_to_html"
    /\ UNCHANGED <<anchorVars, linkVars, page_url_map, mainVars>>
    /\ UNCHANGED checkVars

\* md_to_html: one call of markdown.markdown, which returns or raises
\* (outcome \in Outcomes)
MarkdownCall(outcome) ==
    /\ pc = "md_to_html"
    /\ attempts' = Append(attempts,
                          [extensions |-> ExtensionsOfAttempt(Len(attempts) + 1),
                           outcome |-> outcome])
    /\ md_body' = IF outcome = "returns"
                  THEN Markdown(preprocessed,
                                ExtensionsOfAttempt(Len(attempts) + 1))
                  ELSE md_body
    /\ pc' = AfterAttempt(Len(attempts) + 1, outcome)
    /\ UNCHANGED <<anchorVars, linkVars, page_url_map, mainVars, md_text,
                   title, preprocessed, placeholders, body_html>>
    /\ UNCHANGED checkVars

\* convert_file: postprocess_placeholders
Postprocess ==
    /\ pc = "postprocess"
    /\ body_html' = postprocess_placeholders(md_body, placeholders)
    /\ pc' = "rewrite_md"
    /\ UNCHANGED <<anchorVars, linkVars, page_url_map, mainVars, md_text,
                   title, preprocessed, placeholders, attempts, md_body>>
    /\ UNCHANGED checkVars

\* convert_file: rewrite_md_links
ConvertMdLinks ==
    /\ pc = "rewrite_md"
    /\ body_html' = rewrite_md_links(body_html)
    /\ pc' = "rewrite_cross"
    /\ UNCHANGED <<anchorVars, linkVars, page_url_map, mainVars, md_text,
                   title, preprocessed, placeholders, attempts, md_body>>
    /\ UNCHANGED checkVars

\* convert_file: rewrite_cross_page_links
ConvertCrossLinks ==
    /\ pc = "rewrite_cross"
    /\ body_html' = rewrite_cross_page_links(body_html, page_url_map)
    /\ maps_seen' = Append(maps_seen, page_url_map)
    /\ pc' = "write"
    /\ UNCHANGED <<anchorVars, linkVars, page_url_map, files, md_files,
                   scanned, idx, written, md_text, title, preprocessed,
                   placeholders, attempts, md_body>>
    /\ UNCHANGED checkVars

\* convert_file: the page is written; main: the next file, or the end
WritePage ==
    /\ pc = "write"
    /\ written' = Put(written, Stem(md_files[idx]) \o ".html",
                      HtmlTemplate(title, body_html))
    /\ idx' = idx + 1
    /\ pc' = IF idx = Len(md_files) THEN "done" ELSE "convert"
    /\ UNCHANGED <<anchorVars, linkVars, page_url_map, files, md_files,
                   scanned, maps_seen, fileVars>>
    /\ UNCHANGED checkVars

MainNext ==
    \/ Glob
    \/ \E f \in DOMAIN files : BuildMapEntry(f)
    \/ StartConversions
    \/ ReadAndPreprocess
    \/ \E outcome \in Outcomes : MarkdownCall(outcome)
    \/ Postprocess
    \/ ConvertMdLinks
    \/ ConvertCrossLinks
    \/ WritePage

-----------------------------------------------------------------------------
(* SpecMain: one run of main over the files of SRC_DIR.                    *)

SrcNames == {"a.md", "b.md", "http-api.md", ".md", ".md.md"}

BatchTexts ==
    {"# Alpha\n\nsee <a href=\"b.md#s--x\">b</a> and <a href=\"q.md\">q</a>",
     "intro\r\nline two\n\n~~~mermaid\ngraph TD\nA-->B\n~~~\n\n<a href=\"#top\">top</a>"}

DiagramCodes == {"graph TD\nA-->B\n", " a "}

SegmentBodies ==
    {"Some text."} \cup {FenceOpen \o c \o FenceClose : c \in DiagramCodes}

\* every document of 1 .. n segments, each after a blank line or a line end
RECURSIVE SegmentDocs(_)
SegmentDocs(n) ==
    IF n = 1 THEN SegmentBodies
    ELSE LET shorter == SegmentDocs(n - 1)
         IN  shorter \cup {d \o sep \o b : d \in shorter,
                                            sep \in {"\n\n", "\n"},
                                            b \in SegmentBodies}

\* a document of n diagrams, each in a paragraph of its own
RECURSIVE ManyDiagrams(_)
ManyDiagrams(n) ==
    IF n = 0 THEN "# Many"
    ELSE ManyDiagrams(n - 1) \o "\n\n" \o FenceOpen \o "d" \o IntToStr(n)
             \o "\n" \o FenceClose

Batches ==
    {<<>>}
    \cup {[n \in {"a.md"} |-> d] : d \in SegmentDocs(MaxSegments)}
    \cup {[n \in {"a.md"} |-> ManyDiagrams(11)]}
    \cup UNION {[names -> BatchTexts] :
                   names \in {ns \in SUBSET SrcNames :
                                 Cardinality(ns) \in 1..MaxFiles}}

MainInit ==
    /\ pc = "main"
    /\ files \in Batches
    /\ md_files = <<>>
    /\ scanned = {}
    /\ idx = 0
    /\ page_url_map = <<>>
    /\ written = <<>>
    /\ maps_seen = <<>>
    /\ FileIdle
    /\ AnchorIdle
    /\ LinkIdle
    /\ CheckIdle

SpecMain == MainInit /\ [][MainNext]_vars

-----------------------------------------------------------------------------
(* Claims on main, convert_file and md_to_html.                            *)

\* the name of the page written for source file f
PageName(f) == Stem(f) \o ".html"

\* one entry for every document of the batch
CompleteMap ==
    [k \in {PageName(f) : f \in DOMAIN files} |->
        confluence_page_url(extract_title(
            ReadText(files[CHOOSE f \in DOMAIN files : PageName(f) = k])))]

\* a file is under conversion, or the loop over md_files has been left
Converting ==
    pc \in {"convert", "md_to_html", "postprocess", "rewrite_md",
            "rewrite_cross", "write", "aborted"}
    \/ (pc = "done" /\ DOMAIN files # {})

\* C7: the Page URL Map holds one entry for every document of the batch
\* before the conversion of any document begins, and is not updated
\* afterwards: every call of rewrite_cross_page_links of the run is passed
\* the same, complete map.
C7_MapBuiltBeforeUse ==
    /\ Converting =>
           /\ page_url_map = CompleteMap
           /\ Cardinality(DOMAIN page_url_map) = Cardinality(DOMAIN files)
    /\ \A i \in 1..Len(maps_seen) : maps_seen[i] = CompleteMap

\* no two files of the batch have the same stem
DistinctPages ==
    \A f, g \in DOMAIN files : PageName(f) = PageName(g) => f = g

\* the part of C7 that holds: on a batch of distinct stems, and in every
\* batch as to the order (the map is built before any document is converted
\* and every call of rewrite_cross_page_links is passed that same map)
C7_DistinctStems ==
    /\ DistinctPages => C7_MapBuiltBeforeUse
    /\ Converting => scanned = DOMAIN files
    /\ \A i \in 1..Len(maps_seen) : maps_seen[i] = page_url_map

\* two files of one stem: one entry of the map and one page for both
C7_Collision ==
    /\ pc = "done"
    /\ DOMAIN files = {".md", ".md.md"}
    /\ DOMAIN page_url_map = {".md.html"}
    /\ DOMAIN written = {".md.html"}
    /\ Len(maps_seen) = 2

\* the number of occurrences of p in s
RECURSIVE Count(_, _, _)
Count(s, p, i) ==
    IF Find(s, p, i) = 0 THEN 0 ELSE 1 + Count(s, p, Find(s, p, i) + Len(p))

\* C8: after preprocess_mermaid, the markup converter and
\* postprocess_placeholders, the body holds one image block for each fenced
\* diagram block of the document and no placeholder key, whether the
\* converter left a key bare or put it in a paragraph of its own, and then
\* the <p> wrapper is gone with the key.
C8_PlaceholderRoundTrip ==
    pc = "rewrite_md" =>
        /\ Count(body_html, ImgOpen, 1) = Count(md_text, FenceOpen, 1)
        /\ Len(placeholders) = Count(md_text, FenceOpen, 1)
        /\ Find(body_html, "MERMAID_PLACEHOLDER", 1) = 0
        /\ \A i \in 1..Len(placeholders) :
               /\ Count(md_body, placeholders[i].key, 1) = 1
               /\ Find(body_html, placeholders[i].block, 1) # 0
               /\ Find(md_body, "<p>" \o placeholders[i].key \o "</p>", 1) # 0
                      => Find(body_html,
                              "<p>" \o placeholders[i].block \o "</p>", 1) = 0

C8_Witness ==
    /\ pc = "rewrite_md"
    /\ Len(placeholders) = 2
    /\ Find(md_body, "<p>" \o placeholders[1].key \o "</p>", 1) # 0
    /\ Find(md_body, "<p>" \o placeholders[2].key \o "</p>", 1) = 0
    /\ Find(md_body, placeholders[2].key, 1) # 0
    /\ Count(body_html, ImgOpen, 1) = 2

\* md_to_html has returned a body for the file under conversion
Rendered == pc \in {"postprocess", "rewrite_md", "rewrite_cross", "write"}

\* the call raised, whatever the class of the exception
Raised(a) == a.outcome # "returns"

\* C9 as stated: the second call is made if and only if the first call
\* raised, whatever it raised
C9_OriginalCalls ==
    /\ Len(attempts) <= 2
    /\ Len(attempts) >= 1 => attempts[1].extensions = Extensions
    /\ Len(attempts) = 2 =>
           /\ Raised(attempts[1])
           /\ attempts[2].extensions = SafeExtensions
    /\ Rendered =>
           /\ Len(attempts) >= 1
           /\ attempts[Len(attempts)].outcome = "returns"
           /\ md_body = Markdown(preprocessed,
                                 attempts[Len(attempts)].extensions)
    /\ (Len(attempts) >= 1 /\ Raised(attempts[1])) =>
           (Len(attempts) = 2 \/ pc = "md_to_html")
    /\ pc = "aborted" <=>
           (Len(attempts) = 2 /\ Raised(attempts[2]))

\* the step that follows a first call that raised is the second call, and
\* no step follows a run that was aborted
C9_Steps ==
    /\ (pc = "md_to_html" /\ Len(attempts) = 1) =>
           (Len(attempts') = 2 /\ attempts'[2].extensions = SafeExtensions)
    /\ pc # "aborted"

C9_Original == []C9_OriginalCalls /\ [][C9_Steps]_vars

\* what the amended C9 says of every state
C9_Calls ==
    /\ Len(attempts) <= 2
    /\ Len(attempts) >= 1 => attempts[1].extensions = Extensions
    /\ Len(attempts) = 2 =>
           /\ attempts[1].outcome = "raises Exception"
           /\ attempts[2].extensions = SafeExtensions
    /\ (pc = "md_to_html" /\ Len(attempts) = 1) =>
           attempts[1].outcome = "raises Exception"
    /\ Rendered =>
           /\ Len(attempts) >= 1
           /\ attempts[Len(attempts)].outcome = "returns"
           /\ md_body = Markdown(preprocessed,
                                 attempts[Len(attempts)].extensions)
    /\ (Len(attempts) >= 1 /\ attempts[1].outcome = "raises Exception") =>
           (Len(attempts) = 2 \/ pc = "md_to_html")
    /\ (Len(attempts) >= 1 /\ attempts[1].outcome = "raises BaseException") =>
           (Len(attempts) = 1 /\ pc = "aborted")
    /\ (Len(attempts) >= 1 /\ attempts[1].outcome = "returns") =>
           (Len(attempts) = 1 /\ pc # "aborted")
    /\ pc = "aborted" <=>
           \/ Len(attempts) = 2 /\ Raised(attempts[2])
           \/ Len(attempts) = 1
                  /\ attempts[1].outcome = "raises BaseException"
    /\ pc = "aborted" =>
           /\ DOMAIN written = {PageName(md_files[i]) : i \in 1..(idx - 1)}
           /\ idx <= Len(md_files)

\* C9 (amended): markdown.markdown is called with the full extension set
\* first; it is called once more, with the safe set, if and only if that
\* call raised an exception of class Exception; the body is that of the
\* first call when it returned and of the second otherwise; an exception
\* outside class Exception raised by the first call, and any exception
\* raised by the second, leaves md_to_html with no further call, and the run
\* ends with the file and those after it unwritten.
C9_TwoTierConversion == []C9_Calls /\ [][C9_Steps]_vars

C9_Witness ==
    /\ pc = "postprocess"
    /\ Len(attempts) = 2
    /\ attempts[1].outcome = "raises Exception"
    /\ md_body = Markdown(preprocessed, SafeExtensions)
    /\ md_body # Markdown(preprocessed, Extensions)

-----------------------------------------------------------------------------
(* check_links.py: the anchor link checker.  Its two patterns, with Q for  *)
(* the double quote character:                                             *)
(*     id=Q ([^Q]+) Q            href=Q ([^Q#]+\.html) # ([^Q]+) Q         *)

\* first index >= i of s that holds a character of set (Len(s) + 1 when
\* none): the end of a greedy run of a negated character class
FirstOf(s, i, set) ==
    LET hits == {k \in i..Len(s) : At(s, k) \in set}
    IN  IF hits = {} THEN Len(s) + 1
        ELSE CHOOSE k \in hits : \A j \in hits : k <= j

\* re.findall of the id pattern in s, from index i on
RECURSIVE FindAllIdsFrom(_, _)
FindAllIdsFrom(s, i) ==
    LET o == Find(s, "id=" \o QUOTE, i)
        q == IF o = 0 THEN 0 ELSE FindQuote(s, o + 4)
    IN  IF o = 0 \/ q = 0 THEN <<>>
        ELSE IF q = o + 4 THEN FindAllIdsFrom(s, o + 1)
        ELSE <<SubSeq(s, o + 4, q - 1)>> \o FindAllIdsFrom(s, q + 1)

\* set(re.findall(r'id=Q([^Q]+)Q', text))
IdsIn(text) ==
    {FindAllIdsFrom(text, 1)[k] : k \in DOMAIN FindAllIdsFrom(text, 1)}

\* the match of the href pattern at index o of s, where href=Q occurs: the
\* first group runs up to the first '#' or quote, which has to be a '#'
\* that follows ".html"; the second group runs up to the next quote
HrefMatchAt(s, o) ==
    LET e == FirstOf(s, o + 6, {QUOTE, "#"})
        q == IF e > Len(s) THEN 0 ELSE FindQuote(s, e + 1)
    IN  IF /\ e <= Len(s)
           /\ At(s, e) = "#"
           /\ e - (o + 6) >= 6
           /\ SubSeq(s, e - 5, e - 1) = ".html"
           /\ q > e + 1
        THEN [ok |-> TRUE, target_file |-> SubSeq(s, o + 6, e - 1),
              anchor |-> SubSeq(s, e + 1, q - 1), next |-> q + 1]
        ELSE NoMatch

\* re.findall of the href pattern in s, from index i on
RECURSIVE FindAllLinksFrom(_, _)
FindAllLinksFrom(s, i) ==
    LET o == Find(s, "href=" \o QUOTE, i)
    IN  IF o = 0 THEN <<>>
        ELSE IF HrefMatchAt(s, o).ok
        THEN <<[target_file |-> HrefMatchAt(s, o).target_file,
                anchor |-> HrefMatchAt(s, o).anchor]>>
                 \o FindAllLinksFrom(s, HrefMatchAt(s, o).next)
        ELSE FindAllLinksFrom(s, o + 1)

\* re.findall(r'href=Q([^Q#]+\.html)#([^Q]+)Q', content)
LinksIn(content) == FindAllLinksFrom(content, 1)

\* a plausible slip: the anchor is looked up among the ids of every page
IdsOfAnyPage(index, target_file) == UNION {index[f] : f \in DOMAIN index}

\* ids_by_file.get(target_file, set())
IdsOf(index, target_file) ==
    IF target_file \in DOMAIN index THEN index[target_file] ELSE {}

\* the codes below 256 of the characters str.isprintable rejects
NonPrintable == (1..31) \cup (127..160) \cup {173}

LowerHexDigits == "0123456789abcdef"

\* repr of one character of a str, inside quotes of the kind q
ReprChar(c, q) ==
    IF c = "\\" THEN "\\\\"
    ELSE IF c = "\t" THEN "\\t"
    ELSE IF c = "\n" THEN "\\n"
    ELSE IF c = "\r" THEN "\\r"
    ELSE IF c = q THEN "\\" \o c
    ELSE IF Ord(c) \in NonPrintable
    THEN "\\x" \o At(LowerHexDigits, (Ord(c) \div 16) + 1)
                \o At(LowerHexDigits, (Ord(c) % 16) + 1)
    ELSE c

RECURSIVE ReprChars(_, _, _)
ReprChars(s, i, q) ==
    IF i > Len(s) THEN "" ELSE ReprChar(At(s, i), q) \o ReprChars(s, i + 1, q)

\* repr of a str: in double quotes when it holds ' and no ", in single
\* quotes otherwise
ReprStr(s) ==
    LET q == IF Find(s, "'", 1) # 0 /\ Find(s, "\"", 1) = 0 THEN "\"" ELSE "'"
    IN  q \o ReprChars(s, 1, q) \o q

\* repr of the items of a list of str
RECURSIVE ReprItems(_)
ReprItems(xs) ==
    IF xs = <<>> THEN ""
    ELSE ReprStr(Head(xs))
             \o (IF Len(xs) > 1 THEN ", " ELSE "") \o ReprItems(Tail(xs))

ReprList(xs) == "[" \o ReprItems(xs) \o "]"

\* the ids of the target that start with the anchor's text before its
\* first hyphen, the first three of them in sorted order
CloseIds(index, link) ==
    LET token == Split(link.anchor, "-")[1]
        Close(x) == StartsWith(x, token)
        all == SelectSeq(Sorted(IdsOf(index, link.target_file)), Close)
    IN  SubSeq(all, 1, IF Len(all) < 3 THEN Len(all) ELSE 3)

\* what is printed for the broken links bs
RECURSIVE BrokenLines(_, _)
BrokenLines(index, bs) ==
    IF bs = <<>> THEN <<>>
    ELSE LET b == Head(bs)
             close == CloseIds(index, b)
         IN  <<"  [" \o b.src \o "] -> " \o b.target_file \o "#" \o b.anchor>>
                 \o (IF close # <<>>
                     THEN <<"    actual IDs starting with '"
                                \o Split(b.anchor, "-")[1] \o "': "
                                \o ReprList(close)>>
                     ELSE <<>>)
                 \o BrokenLines(index, Tail(bs))

\* the first loop has read every page of html_dir
IndexBuilt == indexed = DOMAIN pages

\* the first loop, one turn: the glob yields f
IndexPage(f) ==
    /\ pc = "index"
    /\ f \in DOMAIN pages \ indexed
    /\ ids_by_file' = Put(ids_by_file, f, IdsIn(ReadText(pages[f])))
    /\ indexed' = indexed \cup {f}
    /\ UNCHANGED <<pc, page_items, pages, html_files, src_idx, found, link_i,
                   total, ok, broken, printed>>
    /\ UNCHANGED <<anchorVars, linkVars, page_url_map, mainVars, fileVars>>

\* the first loop has ended: total, broken and ok are set, the second loop
\* starts
StartChecks ==
    /\ pc = "index"
    /\ IndexBuilt
    /\ total' = 0
    /\ broken' = <<>>
    /\ ok' = <<>>
    /\ html_files' = Sorted(DOMAIN pages)
    /\ src_idx' = 1
    /\ pc' = IF DOMAIN pages = {} THEN "report" ELSE "read"
    /\ UNCHANGED <<page_items, pages, ids_by_file, indexed, found, link_i,
                   printed>>
    /\ UNCHANGED <<anchorVars, linkVars, page_url_map, mainVars, fileVars>>

\* the second loop: src_file is read and its links are found
ReadPage ==
    /\ pc = "read"
    /\ found' = LinksIn(ReadText(pages[html_files[src_idx]]))
    /\ link_i' = 1
    /\ pc' = "links"
    /\ UNCHANGED <<page_items, pages, ids_by_file, indexed, html_files,
                   src_idx, total, ok, broken, printed>>
    /\ UNCHANGED <<anchorVars, linkVars, page_url_map, mainVars, fileVars>>

\* the inner loop, one turn: a link is counted and filed under ok or broken
CheckLink ==
    /\ pc = "links"
    /\ link_i <= Len(found)
    /\ total' = total + 1
    /\ LET link == [src |-> html_files[src_idx],
                    target_file |-> found[link_i].target_file,
                    anchor |-> found[link_i].anchor]
       IN  IF link.anchor \in IdsOf(ids_by_file, link.target_file)
           THEN ok' = Append(ok, link) /\ broken' = broken
           ELSE broken' = Append(broken, link) /\ ok' = ok
    /\ link_i' = link_i + 1
    /\ UNCHANGED <<pc, page_items, pages, ids_by_file, indexed, html_files,
                   src_idx, found, printed>>
    /\ UNCHANGED <<anchorVars, linkVars, page_url_map, mainVars, fileVars>>

\* the inner loop has ended: the next src_file, or the end of the second loop
NextPage ==
    /\ pc = "links"
    /\ link_i > Len(found)
    /\ src_idx' = src_idx + 1
    /\ pc' = IF src_idx = Len(html_files) THEN "report" ELSE "read"
    /\ UNCHANGED <<page_items, pages, ids_by_file, indexed, html_files,
                   found, link_i, total, ok, broken, printed>>
    /\ UNCHANGED <<anchorVars, linkVars, page_url_map, mainVars, fileVars>>

\* the summary and the listing of the broken links
Report ==
    /\ pc = "report"
    /\ printed' =
           <<"Total anchored links checked: " \o IntToStr(total),
             "  OK:     " \o IntToStr(Len(ok)),
             "  Broken: " \o IntToStr(Len(broken))>>
               \o (IF broken # <<>>
                   THEN <<"\nBROKEN links:">>
                            \o BrokenLines(ids_by_file, broken)
                   ELSE <<"\nAll anchored links resolve correctly.">>)
    /\ pc' = "checked"
    /\ UNCHANGED <<page_items, pages, ids_by_file, indexed, html_files,
                   src_idx, found, link_i, total, ok, broken>>
    /\ UNCHANGED <<anchorVars, linkVars, page_url_map, mainVars, fileVars>>

CheckNext ==
    \/ \E f \in DOMAIN pages : IndexPage(f)
    \/ StartChecks
    \/ ReadPage
    \/ CheckLink
    \/ NextPage
    \/ Report

-----------------------------------------------------------------------------
(* SpecChecker: one run of check_links.py over the pages of html_dir.  A   *)
(* page is made of headings that carry an id and of <a> elements.          *)

\* most elements in the page that holds the links under test
MaxPageItems == 2

IdItem(x) == [kind |-> "id", value |-> x]

LinkItem(h) == [kind |-> "link", value |-> h]

RenderItem(item) ==
    IF item.kind = "id"
    THEN "<h2 id=" \o QUOTE \o item.value \o QUOTE \o ">" \o item.value
             \o "</h2>"
    ELSE "<a href=" \o QUOTE \o item.value \o QUOTE \o ">see</a>"

RECURSIVE RenderItems(_)
RenderItems(items) ==
    IF items = <<>> THEN ""
    ELSE RenderItem(Head(items)) \o "\n" \o RenderItems(Tail(items))

RenderPage(items) == "<body>\r\n" \o RenderItems(items) \o "</body>\n"

CheckHrefs ==
    {"B.html#missing-id", "B.html#other-id", "A.html#other-id",
     "C.html#other-id", "#other-id", "B.html", "B.htm#other-id",
     ".html#other-id", "B.html#", "https://h/p.html#other-id"}

FirstItems == {LinkItem(h) : h \in CheckHrefs} \cup {IdItem("other-id")}

MoreItems ==
    {LinkItem("B.html#other-id"), LinkItem("B.html#missing-id"),
     LinkItem("#other-id"), IdItem("missing-id")}

PagesA == {<<>>} \cup SeqsUpTo(FirstItems, MoreItems, MaxPageItems)

PagesB ==
    {ids \o back :
        ids \in {<<>>, <<IdItem("other-id")>>, <<IdItem("missing-link")>>,
                 <<IdItem("other-id"), IdItem("missing-link")>>,
                 <<IdItem("missing's\\\tid"), IdItem("missing-link")>>},
        back \in {<<>>, <<LinkItem("A.html#other-id")>>}}

PageBatches ==
    {<<>>}
    \cup {[f \in {"A.html"} |-> a] : a \in PagesA}
    \cup {[f \in {"A.html", "B.html"} |-> IF f = "A.html" THEN a ELSE b] :
             a \in PagesA, b \in PagesB}

CheckInit ==
    /\ pc = "index"
    /\ page_items \in PageBatches
    /\ pages = [f \in DOMAIN page_items |-> RenderPage(page_items[f])]
    /\ ids_by_file = <<>>
    /\ indexed = {}
    /\ html_files = <<>>
    /\ src_idx = 0
    /\ found = <<>>
    /\ link_i = 0
    /\ total = 0
    /\ ok = <<>>
    /\ broken = <<>>
    /\ printed = <<>>
    /\ AnchorIdle
    /\ LinkIdle
    /\ page_url_map = <<>>
    /\ MainIdle

SpecChecker == CheckInit /\ [][CheckNext]_vars

-----------------------------------------------------------------------------
(* Claim on check_links.py.                                                *)

\* the ids the elements of a page define
DefinedIds(items) ==
    {items[k].value : k \in {j \in DOMAIN items : items[j].kind = "id"}}

\* h is of the shape <page>.html#<anchor>, page and anchor not empty
PageAnchorHref(h) ==
    /\ HasFragment(h)
    /\ EndsWith(HrefPath(h), ".html")
    /\ Len(HrefPath(h)) > 5
    /\ HrefFragment(h) # ""

\* the cross-page anchored links of page f, in order
RECURSIVE RecordsOf(_, _)
RecordsOf(f, items) ==
    IF items = <<>> THEN <<>>
    ELSE (IF Head(items).kind = "link" /\ PageAnchorHref(Head(items).value)
          THEN <<[src |-> f,
                  target_file |-> HrefPath(Head(items).value),
                  anchor |-> HrefFragment(Head(items).value)]>>
          ELSE <<>>)
             \o RecordsOf(f, Tail(items))

\* those of every page
AllRecords ==
    (IF "A.html" \in DOMAIN page_items
     THEN RecordsOf("A.html", page_items["A.html"]) ELSE <<>>)
        \o (IF "B.html" \in DOMAIN page_items
            THEN RecordsOf("B.html", page_items["B.html"]) ELSE <<>>)

\* the anchor of link r is an id that its target page defines
Resolves(r) ==
    /\ r.target_file \in DOMAIN page_items
    /\ r.anchor \in DefinedIds(page_items[r.target_file])

Dangles(r) == ~Resolves(r)

\* page A links to B.html#missing-id and page B defines other-id
ExamplePages ==
    [f \in {"A.html", "B.html"} |->
        IF f = "A.html" THEN <<LinkItem("B.html#missing-id")>>
        ELSE <<IdItem("other-id")>>]

\* C10: no link is tested before the index holds the ids of every page;
\* every cross-page anchored link of every page is filed exactly once, under
\* ok if and only if its anchor is an id its target page defines and under
\* broken otherwise, a target that is no page of the directory included;
\* same-page links are not counted; total is the number of links under ok
\* plus the number under broken, and these three numbers are printed; for
\* the two pages of the example total is 1, ok is empty and broken holds
\* (A, B, missing-id).
C10_LinkChecker ==
    /\ total = Len(ok) + Len(broken)
    /\ pc = "index" => total = 0
    /\ pc \in {"read", "links", "report", "checked"} =>
           ids_by_file = [f \in DOMAIN page_items |->
                             DefinedIds(page_items[f])]
    /\ \A k \in DOMAIN ok : Resolves(ok[k])
    /\ \A k \in DOMAIN broken : Dangles(broken[k])
    /\ pc \in {"report", "checked"} =>
           /\ ok = SelectSeq(AllRecords, Resolves)
           /\ broken = SelectSeq(AllRecords, Dangles)
           /\ total = Len(AllRecords)
    /\ pc = "checked" =>
           /\ Len(printed) >= 3
           /\ printed[1] = "Total anchored links checked: " \o IntToStr(total)
           /\ printed[2] = "  OK:     " \o IntToStr(Len(ok))
           /\ printed[3] = "  Broken: " \o IntToStr(Len(broken))
    /\ (pc = "checked" /\ page_items = ExamplePages) =>
           /\ total = 1
           /\ ok = <<>>
           /\ broken = <<[src |-> "A.html", target_file |-> "B.html",
                          anchor |-> "missing-id"]>>

C10_Witness ==
    /\ pc = "checked"
    /\ page_items = ExamplePages
    /\ total = 1
    /\ Len(broken) = 1
    /\ broken[1].anchor = "missing-id"
    /\ printed[3] = "  Broken: 1"

=============================================================================
